---- MODULE Spec2Model ----
(***************************************************************************)
(* Model of the PCF diffusion trainers:                                    *)
(*   src/src/trainers/diffpcfgan_trainer.py  (DiffPCFGANTrainer)            *)
(*   src/src/trainers/pcfgan_trainer.py      (PCFGANTrainer)                *)
(*   src/src/trainers/trainer.py             (Trainer.evaluate)             *)
(*                                                                         *)
(* The specifications of the module:                                       *)
(*   Spec          the trainer from its constructor on: training_step /    *)
(*                 validation_step driven epoch by epoch, with gradient    *)
(*                 buffers, parameters and optimizer states (the           *)
(*                 constructor of PCFGANTrainer raises, so its methods     *)
(*                 never run);                                             *)
(*   SpecForward   calls of forward / get_backward_path with every         *)
(*                 combination of supplied and missing arguments;          *)
(*   SpecTransform calls of _flat_add_time_transpose_and_add_zero on       *)
(*                 tensors of every small shape;                           *)
(*   SpecForwardPath calls of _get_forward_path on batches of every small  *)
(*                 shape with every set of excluded feature indices;       *)
(*   SpecWindow    the inputs the three call sites of the adversarial      *)
(*                 distance build from a real and a generated trajectory;  *)
(*   SpecScore     calls of _compute_score_matching_loss from the          *)
(*                 generator phase and from validation;                    *)
(*   SpecAlign     the tensors the generator phase and validation build    *)
(*                 from a batch, down to the reconstruction loss's inputs. *)
(***************************************************************************)
EXTENDS Integers, Sequences, FiniteSets, TLC

VARIABLES
    config,                     \* constructor arguments of the trainer
    current_epoch,              \* LightningModule.current_epoch
    pc,                         \* position inside training_step / validation_step
    targets,                    \* the batch handed to the running call
    i,                          \* loop variable of the discriminator loop
    trace,                      \* explicit calls made by the running call, in order
    diffused_targets,           \* local of the running phase (forward trajectory)
    denoised_diffused_targets,  \* local of the running phase (backward trajectory)
    backward_args,              \* arguments of the last get_backward_path call
    phase_log,                  \* per phase of the running training call: what it was given and built
    grad,                       \* .grad buffers, per parameter group
    params,                     \* number of writes made to each parameter group
    optim_state,                \* number of steps taken by each optimizer
    num_calls,                  \* training calls started so far
    error,                      \* exception that left the running call, if any
    call_args,                  \* arguments of the method called on its own (SpecForward, ...)
    call_result,                \* what that call did
    data,                       \* input tensors of the tensor computation checked on its own
    out                         \* the tensors it built

trainerVars == <<config, current_epoch, pc, targets, i, trace, diffused_targets,
                 denoised_diffused_targets, backward_args, phase_log, grad, params,
                 optim_state, num_calls, error>>
forwardVars == <<call_args, call_result>>
transformVars == <<data, out>>
vars == <<config, current_epoch, pc, targets, i, trace, diffused_targets,
          denoised_diffused_targets, backward_args, phase_log, grad, params,
          optim_state, num_calls, error, call_args, call_result, data, out>>

(***************************************************************************)
(* Bounds                                                                  *)
(***************************************************************************)
MaxDSteps == 2          \* D_steps_per_G_step ranges over 0..MaxDSteps
MaxCalls == 2           \* training calls per run
NumBatches == 2         \* distinct batches of the data loader
MaxSmallEpochs == 4     \* max_epochs ranges over 1..MaxSmallEpochs and the plot period
MaxLags == 2            \* n_lags (L) ranges over 1..MaxLags
BatchSize == 2          \* N, the number of sequences of a batch
InputDim == 1           \* input_dim (D), the feature dimension of a batch
MaxArg == 2             \* num_seq, seq_len, dim_seq and noise dimensions range over 1..MaxArg
MaxStates == 8          \* S, the states of a trajectory given to the transform
MaxBatch == 2           \* N of a trajectory given to the transform
MaxFeat == 2            \* D of a trajectory given to the transform
MaxOffset == 2          \* the entries of a trajectory start at 1..MaxOffset+1
MaxDiffusionSteps == 2  \* num_diffusion_steps (T) ranges over 1..MaxDiffusionSteps
MaxSeed == 1            \* the random draws of a call are one of 0..MaxSeed
MaxWindowSteps == 9     \* SpecWindow, SpecScore: num_diffusion_steps ranges over 1..MaxWindowSteps

(***************************************************************************)
(* Program constants                                                       *)
(***************************************************************************)
PERIOD_PLOT_VAL == 100
PERIOD_PLOT_VAL_GAN == 50

None == "None"
DIFF == "DiffPCFGANTrainer"
GAN == "PCFGANTrainer"
SCORE == "score_network"        \* self.score_network (self.generator in PCFGANTrainer)
DISC == "discriminator"         \* self.discriminator
OPTIM_GEN == "optim_gen"
OPTIM_DISCR == "optim_discr"

(***************************************************************************)
(* Tensors are identified by the place that allocated them: the training   *)
(* call, the phase inside the call (0 the generator phase, k the k-th      *)
(* discriminator phase, -1 a validation call), and their role.  graph is   *)
(* the set of parameter groups autograd reaches from the tensor.           *)
(***************************************************************************)
Tensor(c, ph, r, g, b) == [call |-> c, phase |-> ph, role |-> r, graph |-> g, batch |-> b]
NoTensor == Tensor(0, 0, "none", {}, 0)
NoArgs == [proba |-> -1, forcing |-> NoTensor, noise |-> NoTensor]

Configs ==
    { [trainer |-> t, D_steps_per_G_step |-> d,
       use_fixed_measure_discriminator_pcfd |-> f,
       max_epochs |-> m, n_lags |-> l, input_dim |-> InputDim] :
        t \in {DIFF, GAN}, d \in 0..MaxDSteps, f \in BOOLEAN,
        m \in (1..MaxSmallEpochs) \cup {PERIOD_PLOT_VAL}, l \in 1..MaxLags }

(***************************************************************************)
(* proba_teacher_forcing: 0.5 * (1 + cos(epoch * pi / (max_epochs // 2)))  *)
(* in fixed point, FixedOne standing for 1.0.  The cosine is the Taylor    *)
(* polynomial to x^8 after reduction of the angle to [0, pi/2]; the result *)
(* is within 2e-4 of the floating-point value.  A zero divisor raises      *)
(* ZeroDivisionError.                                                      *)
(***************************************************************************)
FixedOne == 10000
PiFixed == 31416

CosQuadrant(x) ==
    LET x2 == (x * x) \div FixedOne
        x4 == (x2 * x2) \div FixedOne
        x6 == (x4 * x2) \div FixedOne
        x8 == ((x6 \div 10) * x2) \div 1000
    IN  FixedOne - (x2 \div 2) + (x4 \div 24) - (x6 \div 720) + (x8 \div 40320)

CosFixed(angle) ==
    LET a == angle % (2 * PiFixed)
        b == IF a > PiFixed THEN 2 * PiFixed - a ELSE a
    IN  IF 2 * b > PiFixed THEN 0 - CosQuadrant(PiFixed - b) ELSE CosQuadrant(b)

proba_teacher_forcing(epoch, max_epochs) ==
    LET half == max_epochs \div 2
    IN  IF half = 0
        THEN [error |-> "ZeroDivisionError", value |-> -1]
        ELSE [error |-> None,
              value |-> (FixedOne + CosFixed((epoch * PiFixed) \div half)) \div 2]

(***************************************************************************)
(* configure_optimizers, zero_grad, manual_backward, step                  *)
(***************************************************************************)
(* the bug of building both optimizers over all the module's parameters *)
OptimParams_all_parameters(opt) == {SCORE, DISC}

OptimParams(opt) == IF opt = OPTIM_GEN THEN {SCORE} ELSE {DISC}

(* the bug of a phase that does not zero its gradients *)
ZeroGrad_missing(g, opt) == g

ZeroGrad(g, opt) ==
    [p \in DOMAIN g |-> IF p \in OptimParams(opt) THEN {} ELSE g[p]]

ManualBackward(g, lossGraph, tag) ==
    [p \in DOMAIN g |-> IF p \in lossGraph THEN g[p] \cup {tag} ELSE g[p]]

StepParams(pr, g, opt) ==
    [p \in DOMAIN pr |->
        IF p \in OptimParams(opt) /\ g[p] # {} THEN pr[p] + 1 ELSE pr[p]]

StepState(os, opt) == [o \in DOMAIN os |-> IF o = opt THEN os[o] + 1 ELSE os[o]]

(***************************************************************************)
(* Trajectories built by a phase.  grad_enabled is FALSE inside            *)
(* torch.no_grad().  The backward trajectory comes out of the score        *)
(* network (the generator in PCFGANTrainer).                               *)
(***************************************************************************)
GetForwardPath(c, ph, b) == Tensor(c, ph, "forward", {}, b)

GetBackwardPath(c, ph, b, grad_enabled) ==
    Tensor(c, ph, "backward", IF grad_enabled THEN {SCORE} ELSE {}, b)

RealInput(cfg, c, ph, b) ==
    IF cfg.trainer = DIFF THEN GetForwardPath(c, ph, b) ELSE Tensor(c, -2, "targets", {}, b)

GenPhaseArgs(cfg, epoch, real) ==
    IF cfg.trainer = DIFF
    THEN [proba |-> proba_teacher_forcing(epoch, cfg.max_epochs).value,
          forcing |-> real, noise |-> real]
    ELSE NoArgs

DiscPhaseArgs(cfg, epoch, real) ==
    IF cfg.trainer = DIFF
    THEN [proba |-> proba_teacher_forcing(epoch, cfg.max_epochs).value,
          forcing |-> real, noise |-> real]
    ELSE NoArgs

(* the bug of validating with the training call's teacher forcing *)
ValidationArgs_as_training(cfg, epoch, real) == GenPhaseArgs(cfg, epoch, real)

ValidationArgs(cfg, epoch, real) ==
    IF cfg.trainer = DIFF
    THEN [proba |-> 0, forcing |-> NoTensor, noise |-> real]
    ELSE NoArgs

ScheduleError(cfg, epoch) ==
    IF cfg.trainer = DIFF THEN proba_teacher_forcing(epoch, cfg.max_epochs).error ELSE None

(* distance_measure depends on the discriminator's parameters and on       *)
(* whatever its two inputs depend on.                                      *)
DistanceGraph(real, fake) == {DISC} \cup real.graph \cup fake.graph

GenLossGraph(cfg, real, fake) ==
    IF cfg.trainer = DIFF
    THEN DistanceGraph(real, fake) \cup real.graph \cup fake.graph \cup {SCORE}
    ELSE DistanceGraph(real, fake)

DiscLossGraph(cfg, real, fake) == DistanceGraph(real, fake)

(* the bug of leaving torch.no_grad() out of the discriminator phase *)
DiscGradEnabled_no_guard(cfg) == TRUE

DiscGradEnabled(cfg) == FALSE

DiscPhaseBatch(call_targets, k) == call_targets

(* The for loop of training_step, guarded by the fixed-measure flag in     *)
(* DiffPCFGANTrainer and unguarded in PCFGANTrainer.                       *)
DiscLoopContinues(cfg, k) ==
    /\ cfg.trainer = DIFF => ~cfg.use_fixed_measure_discriminator_pcfd
    /\ k < cfg.D_steps_per_G_step

(***************************************************************************)
(* validation_step: the periodic call of evaluate, and evaluate itself     *)
(***************************************************************************)
PeriodPlot(cfg) == IF cfg.trainer = DIFF THEN PERIOD_PLOT_VAL ELSE PERIOD_PLOT_VAL_GAN

(* the bug of testing the zero-based epoch itself *)
EvaluateDue_zero_based(cfg, epoch) == epoch % PeriodPlot(cfg) = 0

EvaluateDue(cfg, epoch) == (epoch + 1) % PeriodPlot(cfg) = 0

XFakeShape(cfg) ==
    IF cfg.trainer = DIFF
    THEN <<BatchSize, cfg.n_lags * cfg.input_dim>>
    ELSE <<BatchSize, cfg.n_lags, cfg.input_dim>>

XRealShape(cfg) ==
    IF cfg.trainer = DIFF
    THEN <<BatchSize, cfg.input_dim>>
    ELSE <<BatchSize, cfg.n_lags, cfg.input_dim>>

plot_histograms_asserts(real_X, fake_X) ==
    /\ real_X[Len(real_X)] = fake_X[Len(fake_X)]
    /\ Len(real_X) = 2
    /\ Len(fake_X) = 2

(* What leaves evaluate(x_fake, x_real, path): the assertion error of      *)
(* plot_histograms, an error of the plotting library, or nothing.  Its     *)
(* last statement is plt.pause(0.01), reached when nothing was raised.     *)
evaluate(x_fake, x_real, plotting) ==
    IF ~plot_histograms_asserts(x_real, x_fake) THEN "AssertionError"
    ELSE IF plotting = "raises" THEN "PlottingError"
    ELSE None

(* What leaves plot_for_back_ward_trajectories: an error of the plotting   *)
(* library (the axes or savefig), or nothing.                              *)
plot_for_back_ward_trajectories(plotting) ==
    IF plotting = "raises" THEN "PlottingError" ELSE None

(* An exception raised inside validation_step leaves validation_step:      *)
(* there is no try block around evaluate or the trajectory plot.           *)
ValidationOutcome(raised) == raised

(***************************************************************************)
(* The training run                                                        *)
(***************************************************************************)
(* The exception that leaves the constructor.  PCFGANTrainer.__init__      *)
(* passes num_epochs to Trainer.__init__, which has no such parameter and  *)
(* needs feature_dim_time_series: the call raises TypeError and no         *)
(* PCFGANTrainer comes to exist.  DiffPCFGANTrainer.__init__ passes the    *)
(* three arguments Trainer.__init__ takes.                                 *)
trainer_init(cfg) == IF cfg.trainer = GAN THEN "TypeError" ELSE None

(* the calls by which a phase builds its sample *)
SampleCalls(cfg) ==
    IF cfg.trainer = DIFF THEN <<"_get_forward_path", "get_backward_path">>
    ELSE <<"generator">>

InitTrainer ==
    /\ config \in { c \in Configs :
                      c.trainer = GAN => ~c.use_fixed_measure_discriminator_pcfd }
    /\ current_epoch = 0
    /\ pc = IF trainer_init(config) = None THEN "idle" ELSE "aborted"
    /\ targets = 0
    /\ i = 0
    /\ trace = <<>>
    /\ diffused_targets = NoTensor
    /\ denoised_diffused_targets = NoTensor
    /\ backward_args = NoArgs
    /\ phase_log = <<>>
    /\ grad = [p \in {SCORE, DISC} |-> {}]
    /\ params = [p \in {SCORE, DISC} |-> 0]
    /\ optim_state = [o \in {OPTIM_GEN, OPTIM_DISCR} |-> 0]
    /\ num_calls = 0
    /\ error = trainer_init(config)

Init ==
    /\ InitTrainer
    /\ call_args = None
    /\ call_result = None
    /\ data = None
    /\ out = None

ClearLocals ==
    /\ targets' = 0
    /\ i' = 0
    /\ trace' = <<>>
    /\ diffused_targets' = NoTensor
    /\ denoised_diffused_targets' = NoTensor
    /\ backward_args' = NoArgs
    /\ phase_log' = <<>>

(* training_step is entered with a batch *)
TrainingStep(b) ==
    /\ UNCHANGED <<forwardVars, transformVars>>
    /\ pc = "idle"
    /\ num_calls < MaxCalls
    /\ num_calls' = num_calls + 1
    /\ targets' = b
    /\ i' = 0
    /\ trace' = <<>>
    /\ pc' = "gen"
    /\ UNCHANGED <<config, current_epoch, diffused_targets, denoised_diffused_targets,
                   backward_args, phase_log, grad, params, optim_state, error>>

GenZeroGrad ==
    /\ UNCHANGED <<forwardVars, transformVars>>
    /\ pc = "gen"
    /\ grad' = ZeroGrad(grad, OPTIM_GEN)
    /\ trace' = Append(trace, "optim_gen.zero_grad")
    /\ pc' = "gen_zeroed"
    /\ UNCHANGED <<config, current_epoch, targets, i, diffused_targets,
                   denoised_diffused_targets, backward_args, phase_log, params, optim_state,
                   num_calls, error>>

GenForward ==
    /\ UNCHANGED <<forwardVars, transformVars>>
    /\ pc = "gen_zeroed"
    /\ LET real == RealInput(config, num_calls, 0, targets)
       IN  IF ScheduleError(config, current_epoch) # None
           THEN /\ error' = ScheduleError(config, current_epoch)
                /\ diffused_targets' = real
                /\ trace' = Append(trace, "_get_forward_path")
                /\ pc' = "aborted"
                /\ UNCHANGED <<denoised_diffused_targets, backward_args, phase_log>>
           ELSE /\ diffused_targets' = real
                /\ denoised_diffused_targets' = GetBackwardPath(num_calls, 0, targets, TRUE)
                /\ backward_args' = GenPhaseArgs(config, current_epoch, real)
                /\ phase_log' = Append(phase_log,
                       [phase |-> 0, batch |-> targets, forward |-> real,
                        backward |-> GetBackwardPath(num_calls, 0, targets, TRUE)])
                /\ trace' = trace \o SampleCalls(config)
                /\ pc' = "gen_forwarded"
                /\ UNCHANGED error
    /\ UNCHANGED <<config, current_epoch, targets, i, grad, params, optim_state, num_calls>>

GenBackward ==
    /\ UNCHANGED <<forwardVars, transformVars>>
    /\ pc = "gen_forwarded"
    /\ grad' = ManualBackward(grad,
                  GenLossGraph(config, diffused_targets, denoised_diffused_targets),
                  [call |-> num_calls, phase |-> 0])
    /\ trace' = Append(trace, "manual_backward")
    /\ pc' = "gen_backwarded"
    /\ UNCHANGED <<config, current_epoch, targets, i, diffused_targets,
                   denoised_diffused_targets, backward_args, phase_log, params, optim_state,
                   num_calls, error>>

GenStep ==
    /\ UNCHANGED <<forwardVars, transformVars>>
    /\ pc = "gen_backwarded"
    /\ params' = StepParams(params, grad, OPTIM_GEN)
    /\ optim_state' = StepState(optim_state, OPTIM_GEN)
    /\ trace' = Append(trace, "optim_gen.step")
    /\ pc' = IF DiscLoopContinues(config, 0) THEN "disc" ELSE "log"
    /\ UNCHANGED <<config, current_epoch, targets, i, diffused_targets,
                   denoised_diffused_targets, backward_args, phase_log, grad, num_calls, error>>

DiscZeroGrad ==
    /\ UNCHANGED <<forwardVars, transformVars>>
    /\ pc = "disc"
    /\ grad' = ZeroGrad(grad, OPTIM_DISCR)
    /\ trace' = Append(trace, "optim_discr.zero_grad")
    /\ pc' = "disc_zeroed"
    /\ UNCHANGED <<config, current_epoch, targets, i, diffused_targets,
                   denoised_diffused_targets, backward_args, phase_log, params, optim_state,
                   num_calls, error>>

DiscForward ==
    /\ UNCHANGED <<forwardVars, transformVars>>
    /\ pc = "disc_zeroed"
    /\ LET b == DiscPhaseBatch(targets, i + 1)
           real == RealInput(config, num_calls, i + 1, b)
       IN  IF ScheduleError(config, current_epoch) # None
           THEN /\ error' = ScheduleError(config, current_epoch)
                /\ diffused_targets' = real
                /\ trace' = Append(trace, "_get_forward_path")
                /\ pc' = "aborted"
                /\ UNCHANGED <<denoised_diffused_targets, backward_args, phase_log>>
           ELSE /\ diffused_targets' = real
                /\ denoised_diffused_targets' =
                       GetBackwardPath(num_calls, i + 1, b, DiscGradEnabled(config))
                /\ backward_args' = DiscPhaseArgs(config, current_epoch, real)
                /\ phase_log' = Append(phase_log,
                       [phase |-> i + 1, batch |-> b, forward |-> real,
                        backward |-> GetBackwardPath(num_calls, i + 1, b,
                                                     DiscGradEnabled(config))])
                /\ trace' = trace \o SampleCalls(config)
                /\ pc' = "disc_forwarded"
                /\ UNCHANGED error
    /\ UNCHANGED <<config, current_epoch, targets, i, grad, params, optim_state, num_calls>>

DiscBackward ==
    /\ UNCHANGED <<forwardVars, transformVars>>
    /\ pc = "disc_forwarded"
    /\ grad' = ManualBackward(grad,
                  DiscLossGraph(config, diffused_targets, denoised_diffused_targets),
                  [call |-> num_calls, phase |-> i + 1])
    /\ trace' = Append(trace, "manual_backward")
    /\ pc' = "disc_backwarded"
    /\ UNCHANGED <<config, current_epoch, targets, i, diffused_targets,
                   denoised_diffused_targets, backward_args, phase_log, params, optim_state,
                   num_calls, error>>

DiscStep ==
    /\ UNCHANGED <<forwardVars, transformVars>>
    /\ pc = "disc_backwarded"
    /\ params' = StepParams(params, grad, OPTIM_DISCR)
    /\ optim_state' = StepState(optim_state, OPTIM_DISCR)
    /\ trace' = Append(trace, "optim_discr.step")
    /\ i' = i + 1
    /\ pc' = IF DiscLoopContinues(config, i + 1) THEN "disc" ELSE "log"
    /\ UNCHANGED <<config, current_epoch, targets, diffused_targets,
                   denoised_diffused_targets, backward_args, phase_log, grad, num_calls, error>>

(* the self.log calls and the return of training_step *)
TrainingStepReturn ==
    /\ UNCHANGED <<forwardVars, transformVars>>
    /\ pc = "log"
    /\ ClearLocals
    /\ pc' = "idle"
    /\ UNCHANGED <<config, current_epoch, grad, params, optim_state, num_calls, error>>

(* validation_step up to the losses it logs *)
ValidationStep(b) ==
    /\ UNCHANGED <<forwardVars, transformVars>>
    /\ pc = "idle"
    /\ targets' = b
    /\ LET real == RealInput(config, num_calls, -1, b)
       IN  /\ diffused_targets' = real
           /\ denoised_diffused_targets' = GetBackwardPath(num_calls, -1, b, TRUE)
           /\ backward_args' = ValidationArgs(config, current_epoch, real)
    /\ trace' = SampleCalls(config)
    /\ pc' = "val"
    /\ UNCHANGED <<config, current_epoch, i, phase_log, grad, params, optim_state, num_calls, error>>

(* the periodic evaluate of validation_step, up to the plt.pause that ends *)
(* plot_histograms; the GAN trainer has nothing left to do after it        *)
ValidationEvaluate(plotting) ==
    /\ UNCHANGED <<forwardVars, transformVars>>
    /\ pc = "val"
    /\ EvaluateDue(config, current_epoch)
    /\ trace' = Append(trace, "evaluate")
    /\ LET raised == ValidationOutcome(
                        evaluate(XFakeShape(config), XRealShape(config), plotting))
       IN  IF raised # None
           THEN /\ error' = raised
                /\ pc' = "aborted"
           ELSE /\ pc' = IF config.trainer = DIFF THEN "val_evaluated" ELSE "val_done"
                /\ UNCHANGED error
    /\ UNCHANGED <<targets, i, diffused_targets, denoised_diffused_targets,
                   backward_args, phase_log>>
    /\ UNCHANGED <<config, current_epoch, grad, params, optim_state, num_calls>>

(* after the pause, the trajectory plot of the diffusion trainer *)
ValidationPlotTrajectories(plotting) ==
    /\ UNCHANGED <<forwardVars, transformVars>>
    /\ pc = "val_evaluated"
    /\ trace' = Append(trace, "plot_for_back_ward_trajectories")
    /\ LET raised == ValidationOutcome(plot_for_back_ward_trajectories(plotting))
       IN  IF raised # None
           THEN /\ error' = raised
                /\ pc' = "aborted"
           ELSE /\ pc' = "val_done"
                /\ UNCHANGED error
    /\ UNCHANGED <<targets, i, diffused_targets, denoised_diffused_targets,
                   backward_args, phase_log>>
    /\ UNCHANGED <<config, current_epoch, grad, params, optim_state, num_calls>>

(* validation_step returns: the period test was false, or evaluate and the *)
(* plot have returned                                                      *)
ValidationReturn ==
    /\ UNCHANGED <<forwardVars, transformVars>>
    /\ \/ pc = "val" /\ ~EvaluateDue(config, current_epoch)
       \/ pc = "val_done"
    /\ ClearLocals
    /\ pc' = "idle"
    /\ UNCHANGED <<config, current_epoch, grad, params, optim_state, num_calls, error>>

(* the fit loop moves to the next epoch, or ends after max_epochs epochs *)
EndEpoch ==
    /\ UNCHANGED <<forwardVars, transformVars>>
    /\ pc = "idle"
    /\ IF current_epoch + 1 < config.max_epochs
       THEN current_epoch' = current_epoch + 1 /\ pc' = "idle"
       ELSE current_epoch' = current_epoch /\ pc' = "finished"
    /\ UNCHANGED <<config, targets, i, trace, diffused_targets, denoised_diffused_targets,
                   backward_args, phase_log, grad, params, optim_state, num_calls, error>>

Next ==
    \/ \E b \in 1..NumBatches : TrainingStep(b)
    \/ GenZeroGrad
    \/ GenForward
    \/ GenBackward
    \/ GenStep
    \/ DiscZeroGrad
    \/ DiscForward
    \/ DiscBackward
    \/ DiscStep
    \/ TrainingStepReturn
    \/ \E b \in 1..NumBatches : ValidationStep(b)
    \/ \E plotting \in {"ok", "raises"} : ValidationEvaluate(plotting)
    \/ \E plotting \in {"ok", "raises"} : ValidationPlotTrajectories(plotting)
    \/ ValidationReturn
    \/ EndEpoch

Spec == Init /\ [][Next]_vars

(***************************************************************************)
(* forward / get_backward_path.  An optional argument is <<>> when it is   *)
(* None and <<v>> when it is given.  A tensor is its shape and its         *)
(* entries, indexed from 0 as in the source; the entries of a noise tensor *)
(* are negative, and those drawn by different draws differ.  The diffusion *)
(* process is outside this repository's trainers: backward_sample follows  *)
(* its contract, T+1 states in the order generated, the start first and    *)
(* the state of diffusion step 0 last.                                     *)
(***************************************************************************)
Index3(a, b, c) == (0..(a - 1)) \X (0..(b - 1)) \X (0..(c - 1))

Index4(a, b, c, d) == (0..(a - 1)) \X (0..(b - 1)) \X (0..(c - 1)) \X (0..(d - 1))

NoOutput == [shape |-> <<>>, at |-> <<>>]

(* torch.randn: one draw of a tensor of the given shape *)
randn(shape, seed) ==
    [shape |-> shape,
     at |-> [ix \in Index3(shape[1], shape[2], shape[3]) |->
                0 - (1 + seed + (ix[1] * shape[2] + ix[2]) * shape[3] + ix[3])]]

OptInts == {<<>>} \cup {<<v>> : v \in 1..MaxArg}

(* the noise tensors a caller gives: draws that no call of forward makes *)
OptNoise ==
    {<<>>} \cup { << randn(<<n, l, d>>, MaxSeed + 1) >> :
                    n \in 1..MaxArg, l \in 1..MaxArg, d \in 1..MaxArg }

ForwardCalls ==
    { [entry |-> e, num_seq |-> a, seq_len |-> b, dim_seq |-> c, noise_start_seq_z |-> z,
       num_diffusion_steps |-> T, seed |-> sd] :
        e \in {"forward", "get_backward_path"},
        a \in OptInts, b \in OptInts, c \in OptInts, z \in OptNoise,
        T \in 1..MaxDiffusionSteps, sd \in 0..MaxSeed }

(* the bug of testing only the first of the three parameters *)
forward_assertion_first_only(args) ==
    args.num_seq # <<>> \/ args.noise_start_seq_z # <<>>

(* the assert of forward *)
forward_assertion(args) ==
    \/ args.num_seq # <<>> /\ args.seq_len # <<>> /\ args.dim_seq # <<>>
    \/ args.noise_start_seq_z # <<>>

(* the bug of sampling the noise with its first two sizes exchanged *)
get_noise_vector_transposed(shape, seed) == randn(<<shape[2], shape[1], shape[3]>>, seed)

get_noise_vector(shape, seed) == randn(shape, seed)

(* one reverse transition: the state of diffusion step t sampled from z *)
reverse_state(value, t, seed) == value * (t + 2) - seed

(* diffusion_process.backward_sample(start, score_network, ...): forced is *)
(* the set of steps at which teacher forcing put the state of the forcing  *)
(* trajectory in place of the sampled one.                                 *)
backward_sample(start, T, seed, forced, sequences_forcing) ==
    [shape |-> <<T + 1, start.shape[1], start.shape[2], start.shape[3]>>,
     at |-> [ix \in Index4(T + 1, start.shape[1], start.shape[2], start.shape[3]) |->
                IF ix[1] = 0 THEN start.at[<<ix[2], ix[3], ix[4]>>]
                ELSE IF (T - ix[1]) \in forced
                THEN sequences_forcing.at[<<T - ix[1], ix[2], ix[3], ix[4]>>]
                ELSE reverse_state(start.at[<<ix[2], ix[3], ix[4]>>], T - ix[1], seed)]]

(* the bug of returning the trajectory in the order generated *)
flip_0_missing(t) == t

(* t.flip(0) *)
flip_0(t) ==
    [shape |-> t.shape,
     at |-> [ix \in DOMAIN t.at |-> t.at[<<t.shape[1] - 1 - ix[1], ix[2], ix[3], ix[4]>>]]]

NotCalled ==
    [stage |-> "entered", raised |-> None, noise_sampled |-> 0, start |-> <<>>,
     backward_sample_calls |-> 0, traj_back |-> NoOutput, value |-> NoOutput]

InitForward ==
    /\ config = [trainer |-> DIFF, D_steps_per_G_step |-> 0,
                 use_fixed_measure_discriminator_pcfd |-> FALSE,
                 max_epochs |-> PERIOD_PLOT_VAL, n_lags |-> 1, input_dim |-> InputDim]
    /\ current_epoch = 0
    /\ pc = "idle"
    /\ targets = 0
    /\ i = 0
    /\ trace = <<>>
    /\ diffused_targets = NoTensor
    /\ denoised_diffused_targets = NoTensor
    /\ backward_args = NoArgs
    /\ phase_log = <<>>
    /\ grad = [p \in {SCORE, DISC} |-> {}]
    /\ params = [p \in {SCORE, DISC} |-> 0]
    /\ optim_state = [o \in {OPTIM_GEN, OPTIM_DISCR} |-> 0]
    /\ num_calls = 0
    /\ error = None
    /\ call_args \in ForwardCalls
    /\ call_result = NotCalled
    /\ data = None
    /\ out = None

(* the assert at the head of forward *)
ForwardAssert ==
    /\ call_result.stage = "entered"
    /\ call_result' =
          IF forward_assertion(call_args)
          THEN [call_result EXCEPT !.stage = "checked"]
          ELSE [call_result EXCEPT !.stage = "raised", !.raised = "AssertionError"]
    /\ UNCHANGED <<trainerVars, call_args, transformVars>>

(* noise_start_seq_z is None: the noise is sampled from the three sizes *)
ForwardGetNoise ==
    /\ call_result.stage = "checked"
    /\ call_args.noise_start_seq_z = <<>>
    /\ call_result' =
          [call_result EXCEPT
              !.stage = "noise_ready",
              !.noise_sampled = @ + 1,
              !.start = << get_noise_vector(<<call_args.num_seq[1], call_args.seq_len[1],
                                              call_args.dim_seq[1]>>, call_args.seed) >>]
    /\ UNCHANGED <<trainerVars, call_args, transformVars>>

(* noise_start_seq_z is given: it is what backward sampling starts from *)
ForwardUseGivenNoise ==
    /\ call_result.stage = "checked"
    /\ call_args.noise_start_seq_z # <<>>
    /\ call_result' =
          [call_result EXCEPT !.stage = "noise_ready", !.start = call_args.noise_start_seq_z]
    /\ UNCHANGED <<trainerVars, call_args, transformVars>>

(* diffusion_process.backward_sample, which calls the score network *)
ForwardBackwardSample ==
    /\ call_result.stage = "noise_ready"
    /\ call_result' =
          [call_result EXCEPT
              !.stage = "sampled",
              !.backward_sample_calls = @ + 1,
              !.traj_back = backward_sample(call_result.start[1],
                                            call_args.num_diffusion_steps,
                                            call_args.seed, {}, NoOutput)]
    /\ UNCHANGED <<trainerVars, call_args, transformVars>>

(* return traj_back.flip(0) *)
ForwardReturn ==
    /\ call_result.stage = "sampled"
    /\ call_result' = [call_result EXCEPT !.stage = "returned",
                                            !.value = flip_0(call_result.traj_back)]
    /\ UNCHANGED <<trainerVars, call_args, transformVars>>

NextForward ==
    \/ ForwardAssert
    \/ ForwardGetNoise
    \/ ForwardUseGivenNoise
    \/ ForwardBackwardSample
    \/ ForwardReturn

SpecForward == InitForward /\ [][NextForward]_vars

(***************************************************************************)
(* _flat_add_time_transpose_and_add_zero.  The diffusion times are in      *)
(* fixed point, FixedOne standing for 1.0.                                 *)
(***************************************************************************)
Trajectory(S, N, L, D, offset) ==
    [shape |-> <<S, N, L, D>>,
     at |-> [ix \in (0..(S - 1)) \X (0..(N - 1)) \X (0..(L - 1)) \X (0..(D - 1)) |->
                offset + 1 + ((ix[1] * N + ix[2]) * L + ix[3]) * D + ix[4]]]

Trajectories ==
    { Trajectory(S, N, L, D, o) :
        S \in 1..MaxStates, N \in 1..MaxBatch, L \in 1..MaxLags, D \in 1..MaxFeat,
        o \in 0..MaxOffset }

(* data.flatten(2, 3) *)
flatten_2_3(t) ==
    LET S == t.shape[1]
        N == t.shape[2]
        L == t.shape[3]
        D == t.shape[4]
    IN  [shape |-> <<S, N, L * D>>,
         at |-> [ix \in Index3(S, N, L * D) |->
                    t.at[<<ix[1], ix[2], ix[3] \div D, ix[3] % D>>]]]

(* the bug of adding the zero state after the last state *)
cat_zeros_trailing(t) ==
    [shape |-> <<t.shape[1] + 1, t.shape[2], t.shape[3]>>,
     at |-> [ix \in Index3(t.shape[1] + 1, t.shape[2], t.shape[3]) |->
                IF ix[1] = t.shape[1] THEN 0 ELSE t.at[ix]]]

(* torch.cat((zeros, data), dim=0) *)
cat_zeros(t) ==
    [shape |-> <<t.shape[1] + 1, t.shape[2], t.shape[3]>>,
     at |-> [ix \in Index3(t.shape[1] + 1, t.shape[2], t.shape[3]) |->
                IF ix[1] = 0 THEN 0 ELSE t.at[<<ix[1] - 1, ix[2], ix[3]>>]]]

(* FixedOne * num / den rounded to the nearest unit of the fixed point *)
FixedRatio(num, den) == (2 * FixedOne * num + den) \div (2 * den)

(* torch.linspace(0.0, 1.0, steps): one step gives the start alone;       *)
(* otherwise the step is (end - start) / (steps-1), the first half counts  *)
(* up from start, start + step * k, and the second half down from end,     *)
(* end - step * (steps-1-k).  The products are taken before the division,  *)
(* so an entry is the float's value to the nearest unit.                   *)
linspace(steps) ==
    IF steps = 1 THEN [k \in 0..0 |-> 0]
    ELSE [k \in 0..(steps - 1) |->
             IF k < steps \div 2 THEN FixedRatio(k, steps - 1)
             ELSE FixedOne - FixedRatio(steps - 1 - k, steps - 1)]

(* torch.cat((data, diffusion_times), dim=-1) *)
cat_times(t) ==
    LET times == linspace(t.shape[1])
    IN  [shape |-> <<t.shape[1], t.shape[2], t.shape[3] + 1>>,
         at |-> [ix \in Index3(t.shape[1], t.shape[2], t.shape[3] + 1) |->
                    IF ix[3] = t.shape[3] THEN times[ix[1]] ELSE t.at[ix]]]

(* data.transpose(0, 1) *)
transpose_0_1(t) ==
    [shape |-> <<t.shape[2], t.shape[1], t.shape[3]>>,
     at |-> [ix \in Index3(t.shape[2], t.shape[1], t.shape[3]) |->
                t.at[<<ix[2], ix[1], ix[3]>>]]]

flat_add_time_transpose_and_add_zero(t) ==
    transpose_0_1(cat_times(cat_zeros(flatten_2_3(t))))

InitTransform ==
    /\ config = [trainer |-> DIFF, D_steps_per_G_step |-> 0,
                 use_fixed_measure_discriminator_pcfd |-> FALSE,
                 max_epochs |-> PERIOD_PLOT_VAL, n_lags |-> 1, input_dim |-> InputDim]
    /\ current_epoch = 0
    /\ pc = "idle"
    /\ targets = 0
    /\ i = 0
    /\ trace = <<>>
    /\ diffused_targets = NoTensor
    /\ denoised_diffused_targets = NoTensor
    /\ backward_args = NoArgs
    /\ phase_log = <<>>
    /\ grad = [p \in {SCORE, DISC} |-> {}]
    /\ params = [p \in {SCORE, DISC} |-> 0]
    /\ optim_state = [o \in {OPTIM_GEN, OPTIM_DISCR} |-> 0]
    /\ num_calls = 0
    /\ error = None
    /\ call_args = None
    /\ call_result = None
    /\ data \in Trajectories
    /\ out = NoOutput

FlatAddTimeTransposeAndAddZero ==
    /\ out = NoOutput
    /\ out' = flat_add_time_transpose_and_add_zero(data)
    /\ UNCHANGED <<trainerVars, forwardVars, data>>

NextTransform == FlatAddTimeTransposeAndAddZero

SpecTransform == InitTransform /\ [][NextTransform]_vars

(***************************************************************************)
(* Properties of the training run                                          *)
(***************************************************************************)
Count(seq, x) == Cardinality({k \in DOMAIN seq : seq[k] = x})

TrainingOps == {"optim_gen.zero_grad", "optim_gen.step", "optim_discr.zero_grad",
                "optim_discr.step", "manual_backward"}

InTrainingCall ==
    \/ pc \in {"gen", "gen_zeroed", "gen_forwarded", "gen_backwarded", "disc",
               "disc_zeroed", "disc_forwarded", "disc_backwarded", "log"}
    \/ pc = "aborted" /\ Count(trace, "optim_gen.zero_grad") > 0

TrainingCallEnded ==
    \/ pc = "log"
    \/ pc = "aborted" /\ Count(trace, "optim_gen.zero_grad") > 0

ExpectedDiscPhases ==
    IF config.trainer = DIFF /\ config.use_fixed_measure_discriminator_pcfd
    THEN 0
    ELSE config.D_steps_per_G_step

(* C1: in every training call the generator phase runs exactly once and    *)
(* has stepped its optimizer before any discriminator phase starts, and    *)
(* the call runs exactly D discriminator phases after it when the          *)
(* fixed-measure mode is off, and none when it is on.                      *)
C1_OneGeneratorPhaseThenDDiscriminatorPhases ==
    InTrainingCall =>
        /\ Count(trace, "optim_gen.zero_grad") <= 1
        /\ \A k \in DOMAIN trace :
              trace[k] = "optim_discr.zero_grad" =>
                  \E j \in 1..(k - 1) : trace[j] = "optim_gen.step"
        /\ TrainingCallEnded =>
              /\ Count(trace, "optim_gen.step") = 1
              /\ Count(trace, "optim_discr.step") = ExpectedDiscPhases

(* C2: no backward pass of a generator phase has added to the gradient     *)
(* buffers of the discriminator parameters, and no backward pass of a      *)
(* discriminator phase has added to the buffers of the score network.      *)
C2_NoGradientCrossesGroups ==
    config.trainer = DIFF =>
        /\ \A tag \in grad[DISC] : tag.phase # 0
        /\ \A tag \in grad[SCORE] : tag.phase = 0

(* C3: the score-network parameters are written only by the optimizer step *)
(* of a generator phase, once, with the discriminator parameters and the   *)
(* discriminator optimizer state untouched during the whole phase; the     *)
(* discriminator parameters are written only by the optimizer step of a    *)
(* discriminator phase, once, with the score-network parameters and the    *)
(* generator optimizer state untouched during the whole phase; in          *)
(* fixed-measure mode the discriminator parameters are never written.      *)
C3_EachGroupWrittenOnceByItsOwnStep ==
    [][ /\ params'[SCORE] # params[SCORE] =>
              /\ pc = "gen_backwarded"
              /\ trace' = Append(trace, "optim_gen.step")
              /\ params'[SCORE] = params[SCORE] + 1
        /\ params'[DISC] # params[DISC] =>
              /\ pc = "disc_backwarded"
              /\ trace' = Append(trace, "optim_discr.step")
              /\ params'[DISC] = params[DISC] + 1
        /\ pc = "gen_backwarded" /\ pc' # pc => params'[SCORE] = params[SCORE] + 1
        /\ pc = "disc_backwarded" /\ pc' # pc => params'[DISC] = params[DISC] + 1
        /\ pc \in {"gen", "gen_zeroed", "gen_forwarded", "gen_backwarded"} =>
              /\ params'[DISC] = params[DISC]
              /\ optim_state'[OPTIM_DISCR] = optim_state[OPTIM_DISCR]
        /\ pc \in {"disc", "disc_zeroed", "disc_forwarded", "disc_backwarded"} =>
              /\ params'[SCORE] = params[SCORE]
              /\ optim_state'[OPTIM_GEN] = optim_state[OPTIM_GEN]
        /\ Count(trace', "optim_gen.step") <= 1
        /\ Count(trace', "optim_discr.step") = i'
        /\ (config.trainer = DIFF /\ config.use_fixed_measure_discriminator_pcfd) =>
              params'[DISC] = 0
      ]_vars

(* a discriminator phase has stepped after the generator phase wrote the   *)
(* score network, and both groups have been written                        *)
C3_Witness ==
    /\ pc = "log"
    /\ config.trainer = DIFF
    /\ i = 2
    /\ params[SCORE] = 2
    /\ params[DISC] = 4

(* C4: a validation call zeroes and steps no optimizer and runs no         *)
(* backward pass, leaves parameters, gradient buffers and both optimizer   *)
(* states as they were, and builds its backward trajectory with            *)
(* teacher-forcing probability 0 and no forcing trajectory at every epoch. *)
C4_ValidationUpdatesNothing ==
    [][ (pc \in {"val", "val_evaluated", "val_done"} \/ pc' = "val") =>
            /\ params' = params
            /\ optim_state' = optim_state
            /\ grad' = grad
            /\ \A k \in DOMAIN trace' : trace'[k] \notin TrainingOps
            /\ (pc' = "val" /\ config.trainer = DIFF) =>
                  /\ backward_args'.proba = 0
                  /\ backward_args'.forcing = NoTensor
      ]_vars

(* a validation call at a later epoch, after training has written the      *)
(* parameters, at an epoch where the training schedule is not 0            *)
C4_Witness ==
    /\ pc = "val"
    /\ config.trainer = DIFF
    /\ current_epoch > 0
    /\ params[SCORE] > 0
    /\ proba_teacher_forcing(current_epoch, config.max_epochs).value > 0

(* C7: a failure of evaluate inside validation_step, such as a shape       *)
(* assertion of plot_histograms, does not leave validation_step.           *)
C7_EvaluateFailureDoesNotAbort ==
    ~(config.trainer = DIFF /\ pc = "aborted" /\ error = "AssertionError")

(* C8: every discriminator phase of a training call is given the batch of  *)
(* the generator phase, builds forward and backward trajectories that no   *)
(* earlier phase of the call built, and generates without gradient         *)
(* tracking.                                                               *)
C8_SameBatchFreshTrajectories ==
    \A k \in DOMAIN phase_log :
        /\ phase_log[k].batch = phase_log[1].batch
        /\ phase_log[k].batch = targets
        /\ phase_log[k].forward.batch = targets
        /\ phase_log[k].backward.batch = targets
        /\ \A j \in 1..(k - 1) :
              /\ phase_log[k].backward # phase_log[j].backward
              /\ phase_log[k].backward # phase_log[j].forward
              /\ config.trainer = DIFF =>
                    /\ phase_log[k].forward # phase_log[j].forward
                    /\ phase_log[k].forward # phase_log[j].backward
        /\ k >= 2 =>
              /\ phase_log[k].forward.graph = {}
              /\ phase_log[k].backward.graph = {}

(* the second discriminator phase of a call on the second batch *)
C8_Witness ==
    /\ pc = "disc_forwarded"
    /\ config.trainer = DIFF
    /\ Len(phase_log) = 3
    /\ targets = 2
    /\ num_calls = 2

(* C9: the teacher-forcing probability of a phase is defined for every     *)
(* max_epochs >= 1, lies in [0, 1], is 1 at epoch 0, is not larger than    *)
(* at the epoch before, and is 0 at the last epoch.                        *)
C9_TeacherForcingAnnealsFromOneToZero ==
    /\ error # "ZeroDivisionError"
    /\ (config.trainer = DIFF /\ pc \in {"gen_forwarded", "disc_forwarded"}) =>
          /\ backward_args.proba >= 0
          /\ backward_args.proba <= FixedOne
          /\ current_epoch = 0 => backward_args.proba = FixedOne
          /\ current_epoch > 0 =>
                backward_args.proba <=
                    proba_teacher_forcing(current_epoch - 1, config.max_epochs).value
          /\ current_epoch = config.max_epochs - 1 => backward_args.proba = 0

(***************************************************************************)
(* Properties of forward / get_backward_path                               *)
(***************************************************************************)
TripleGiven == call_args.num_seq # <<>> /\ call_args.seq_len # <<>> /\ call_args.dim_seq # <<>>
NoiseGiven == call_args.noise_start_seq_z # <<>>

(* C5: a call without a noise tensor and without at least one of num_seq,  *)
(* seq_len, dim_seq raises the assertion error, with no noise sampled and  *)
(* backward_sample (hence the score network) not called.                   *)
C5_MissingInputsRejectedBeforeSampling ==
    /\ (~NoiseGiven /\ ~TripleGiven /\ call_result.stage # "entered") =>
          /\ call_result.stage = "raised"
          /\ call_result.raised = "AssertionError"
    /\ call_result.raised # None =>
          /\ call_result.noise_sampled = 0
          /\ call_result.start = <<>>
          /\ call_result.backward_sample_calls = 0

(* get_backward_path called with two of the three sizes and no noise *)
C5_Witness ==
    /\ call_args.entry = "get_backward_path"
    /\ call_args.num_seq = <<2>>
    /\ call_args.seq_len = <<1>>
    /\ call_args.dim_seq = <<>>
    /\ ~NoiseGiven
    /\ call_result.stage = "raised"

(* C6: a call that gives both the three sizes and a noise tensor is        *)
(* rejected with the assertion error, as a call that gives neither is.     *)
C6_BothModesRejected ==
    (call_result.stage # "entered" /\ (TripleGiven <=> NoiseGiven)) =>
        call_result.raised = "AssertionError"

(***************************************************************************)
(* Properties of _flat_add_time_transpose_and_add_zero                     *)
(***************************************************************************)
(* C10: a trajectory of shape (S, N, L, D) becomes a tensor of shape       *)
(* (N, S+1, L*D+1) whose step row 0 is zero on the L*D data channels,      *)
(* whose step row r >= 1 holds state r-1 flattened row-major over (L, D),  *)
(* and whose last channel on step row r is r/S: 0 on row 0, 1 on row S,    *)
(* and r/S rounded to the nearest unit of the fixed point in between.     *)
C10_TransformShapeZeroRowAndTimes ==
    out.shape # <<>> =>
        LET S == data.shape[1]
            N == data.shape[2]
            L == data.shape[3]
            D == data.shape[4]
        IN  /\ out.shape = <<N, S + 1, L * D + 1>>
            /\ DOMAIN out.at = Index3(N, S + 1, L * D + 1)
            /\ \A n \in 0..(N - 1) :
                  /\ \A c \in 0..(L * D - 1) : out.at[<<n, 0, c>>] = 0
                  /\ \A r \in 1..S : \A l \in 0..(L - 1) : \A d \in 0..(D - 1) :
                        out.at[<<n, r, l * D + d>>] = data.at[<<r - 1, n, l, d>>]
                  /\ out.at[<<n, 0, L * D>>] = 0
                  /\ out.at[<<n, S, L * D>>] = FixedOne
                  /\ \A r \in 0..S :
                        /\ 2 * (out.at[<<n, r, L * D>>] * S - r * FixedOne) <= S
                        /\ 2 * (r * FixedOne - out.at[<<n, r, L * D>>] * S) <= S

(* the transform of a trajectory with several states, sequences, lags and  *)
(* features                                                                *)
C10_Witness ==
    /\ out.shape # <<>>
    /\ data.shape = <<7, 2, 2, 2>>
    /\ out.shape = <<2, 8, 5>>
    /\ out.at[<<1, 3, 4>>] = 4286
    /\ out.at[<<1, 4, 4>>] = 5714

(***************************************************************************)
(* _get_forward_path.  The batch starting_data is a tensor (N, L, D);      *)
(* indices_features_not_diffuse is the set of feature indices, negative    *)
(* ones counting from the end.  The diffusion process is outside this      *)
(* repository's trainers: forward_sample follows its contract, T+1 states  *)
(* of which state 0 is the clean data and the others are noised; a noised  *)
(* entry is negative, the entries of a batch being positive.               *)
(***************************************************************************)
Batch(N, L, D, offset) ==
    [shape |-> <<N, L, D>>,
     at |-> [ix \in Index3(N, L, D) |-> offset + 1 + (ix[1] * L + ix[2]) * D + ix[3]]]

Batches ==
    { Batch(N, L, D, o) :
        N \in 1..MaxBatch, L \in 1..MaxLags, D \in 1..MaxFeat, o \in 0..MaxOffset }

(* tensors that are not 3-dimensional: a matrix and a trajectory *)
NotBatches ==
    { [shape |-> <<N, D>>, at |-> <<>>] : N \in 1..MaxBatch, D \in 1..MaxFeat }
    \cup { Trajectory(1, N, 1, D, 0) : N \in 1..MaxBatch, D \in 1..MaxFeat }

ForwardPathCalls ==
    { [starting_data |-> x, indices_features_not_diffuse |-> ix,
       num_diffusion_steps |-> T, seed |-> sd] :
        x \in Batches \cup NotBatches,
        ix \in SUBSET ((0 - MaxFeat)..(MaxFeat - 1)),
        T \in 1..MaxDiffusionSteps, sd \in 0..MaxSeed }

(* the bug of marking the listed features as the diffused ones *)
mask_where_diffuse_inverted(D, indices) ==
    [d \in 0..(D - 1) |-> (d \in indices \/ d - D \in indices)]

(* mask = ones(D); mask[indices] = False *)
mask_where_diffuse(D, indices) ==
    [d \in 0..(D - 1) |-> ~(d \in indices \/ d - D \in indices)]

IndicesInRange(D, indices) == \A k \in indices : 0 - D <= k /\ k < D

(* the features kept by a boolean mask, in order *)
RECURSIVE Selected(_, _)
Selected(mask, d) ==
    IF d \notin DOMAIN mask THEN <<>>
    ELSE (IF mask[d] THEN <<d>> ELSE <<>>) \o Selected(mask, d + 1)

(* starting_data[:, :, mask] *)
mask_select(x, mask) ==
    LET sel == Selected(mask, 0)
    IN  [shape |-> <<x.shape[1], x.shape[2], Len(sel)>>,
         at |-> [ix \in Index3(x.shape[1], x.shape[2], Len(sel)) |->
                    x.at[<<ix[1], ix[2], sel[ix[3] + 1]>>]]]

noised(value, step, seed) == 0 - (value + step * (seed + 1))

(* diffusion_process.forward_sample *)
forward_sample(x, T, seed) ==
    [shape |-> <<T + 1, x.shape[1], x.shape[2], x.shape[3]>>,
     at |-> [ix \in Index4(T + 1, x.shape[1], x.shape[2], x.shape[3]) |->
                IF ix[1] = 0 THEN x.at[<<ix[2], ix[3], ix[4]>>]
                ELSE noised(x.at[<<ix[2], ix[3], ix[4]>>], ix[1], seed)]]

(* starting_data.clone().unsqueeze(0).repeat(T + 1, 1, 1, 1) *)
repeat_states(x, T) ==
    [shape |-> <<T + 1, x.shape[1], x.shape[2], x.shape[3]>>,
     at |-> [ix \in Index4(T + 1, x.shape[1], x.shape[2], x.shape[3]) |->
                x.at[<<ix[2], ix[3], ix[4]>>]]]

(* t[:, :, :, mask] = values *)
mask_assign(t, mask, values) ==
    LET sel == Selected(mask, 0)
        pos(d) == CHOOSE j \in 1..Len(sel) : sel[j] = d
    IN  [shape |-> t.shape,
         at |-> [ix \in DOMAIN t.at |->
                    IF mask[ix[4]]
                    THEN values.at[<<ix[1], ix[2], ix[3], pos(ix[4]) - 1>>]
                    ELSE t.at[ix]]]

get_forward_path(starting_data, indices, T, seed) ==
    IF Len(starting_data.shape) # 3
    THEN [raised |-> "AssertionError", value |-> NoOutput]
    ELSE IF ~IndicesInRange(starting_data.shape[3], indices)
    THEN [raised |-> "IndexError", value |-> NoOutput]
    ELSE LET mask == mask_where_diffuse(starting_data.shape[3], indices)
         IN  [raised |-> None,
              value |-> mask_assign(repeat_states(starting_data, T), mask,
                                    forward_sample(mask_select(starting_data, mask), T, seed))]

NotReturned == [raised |-> None, value |-> NoOutput, returned |-> FALSE]

IdleTrainer ==
    /\ config = [trainer |-> DIFF, D_steps_per_G_step |-> 0,
                 use_fixed_measure_discriminator_pcfd |-> FALSE,
                 max_epochs |-> PERIOD_PLOT_VAL, n_lags |-> 1, input_dim |-> InputDim]
    /\ current_epoch = 0
    /\ pc = "idle"
    /\ targets = 0
    /\ i = 0
    /\ trace = <<>>
    /\ diffused_targets = NoTensor
    /\ denoised_diffused_targets = NoTensor
    /\ backward_args = NoArgs
    /\ phase_log = <<>>
    /\ grad = [p \in {SCORE, DISC} |-> {}]
    /\ params = [p \in {SCORE, DISC} |-> 0]
    /\ optim_state = [o \in {OPTIM_GEN, OPTIM_DISCR} |-> 0]
    /\ num_calls = 0
    /\ error = None

InitForwardPath ==
    /\ IdleTrainer
    /\ call_args \in ForwardPathCalls
    /\ call_result = NotReturned
    /\ data = None
    /\ out = None

GetForwardPathCall ==
    /\ ~call_result.returned
    /\ LET r == get_forward_path(call_args.starting_data,
                                 call_args.indices_features_not_diffuse,
                                 call_args.num_diffusion_steps, call_args.seed)
       IN  call_result' = [raised |-> r.raised, value |-> r.value, returned |-> TRUE]
    /\ UNCHANGED <<trainerVars, call_args, transformVars>>

NextForwardPath == GetForwardPathCall

SpecForwardPath == InitForwardPath /\ [][NextForwardPath]_vars

(***************************************************************************)
(* Properties of _get_forward_path                                         *)
(***************************************************************************)
Excluded(D, indices) == {d \in 0..(D - 1) : d \in indices \/ d - D \in indices}

(* C11: for a batch (N, L, D) and any set of excluded feature indices the  *)
(* result has exactly T+1 states of the batch's shape; every excluded      *)
(* feature equals the batch in all T+1 states; every other feature is the  *)
(* forward sample (the batch in state 0, noised in states 1..T); an input  *)
(* that is not 3-dimensional raises the assertion error.                   *)
C11_ForwardPathKeepsExcludedChannels ==
    call_result.returned =>
        LET x == call_args.starting_data
            T == call_args.num_diffusion_steps
            idx == call_args.indices_features_not_diffuse
            res == call_result.value
        IN  /\ Len(x.shape) # 3 => call_result.raised = "AssertionError"
            /\ (Len(x.shape) = 3 /\ IndicesInRange(x.shape[3], idx)) =>
                  /\ call_result.raised = None
                  /\ res.shape = <<T + 1, x.shape[1], x.shape[2], x.shape[3]>>
                  /\ DOMAIN res.at = Index4(T + 1, x.shape[1], x.shape[2], x.shape[3])
                  /\ \A ix \in DOMAIN res.at :
                        IF ix[4] \in Excluded(x.shape[3], idx)
                        THEN res.at[ix] = x.at[<<ix[2], ix[3], ix[4]>>]
                        ELSE IF ix[1] = 0
                        THEN res.at[ix] = x.at[<<ix[2], ix[3], ix[4]>>]
                        ELSE res.at[ix] < 0

(* a batch with two features of which the last is excluded by index -1 *)
C11_Witness ==
    /\ call_result.returned
    /\ call_result.raised = None
    /\ call_args.starting_data.shape = <<2, 2, 2>>
    /\ call_args.indices_features_not_diffuse = {-1}
    /\ call_args.num_diffusion_steps = 2
    /\ call_result.value.shape = <<3, 2, 2, 2>>

(***************************************************************************)
(* The inputs of the adversarial distance.  _get_forward_path and          *)
(* get_backward_path both give a trajectory of T+1 states (T+1, N, L, D),  *)
(* index 0 the data and index T the terminal noise; each call site         *)
(* transforms both and slices the step axis of the two results.            *)
(***************************************************************************)
NUM_STEPS_DIFFUSION_2_CONSIDER == 8 + 1

Min(a, b) == IF a <= b THEN a ELSE b

(* x[:, :-1] *)
drop_last_step(x) ==
    LET R == IF x.shape[2] >= 1 THEN x.shape[2] - 1 ELSE 0
    IN  [shape |-> <<x.shape[1], R, x.shape[3]>>,
         at |-> [ix \in Index3(x.shape[1], R, x.shape[3]) |-> x.at[ix]]]

(* x[:, :k] *)
first_steps(x, k) ==
    LET R == Min(k, x.shape[2])
    IN  [shape |-> <<x.shape[1], R, x.shape[3]>>,
         at |-> [ix \in Index3(x.shape[1], R, x.shape[3]) |-> x.at[ix]]]

(* the bug of slicing without dropping the last step row *)
window_keeps_last(x) == first_steps(x, NUM_STEPS_DIFFUSION_2_CONSIDER)

(* x[:, :-1][:, :NUM_STEPS_DIFFUSION_2_CONSIDER] *)
window(x) == first_steps(drop_last_step(x), NUM_STEPS_DIFFUSION_2_CONSIDER)

(* the two tensors given to discriminator.distance_measure at each site *)
gen_distance_inputs(diffused, denoised) ==
    [site |-> "gen", real |-> window(diffused), fake |-> window(denoised)]

disc_distance_inputs(diffused, denoised) ==
    [site |-> "disc", real |-> window(diffused), fake |-> window(denoised)]

val_distance_inputs(diffused, denoised) ==
    [site |-> "val", real |-> window(diffused), fake |-> window(denoised)]

TrajectoryPairs ==
    { [num_diffusion_steps |-> T,
       diffused_targets |-> Trajectory(T + 1, N, L, D, o),
       denoised_diffused_targets |-> Trajectory(T + 1, N, L, D, o + (T + 1) * N * L * D)] :
        T \in 1..MaxWindowSteps, N \in 1..MaxBatch, L \in 1..MaxLags,
        D \in 1..MaxFeat, o \in 0..MaxOffset }

InitWindow ==
    /\ IdleTrainer
    /\ call_args = None
    /\ call_result = None
    /\ data \in TrajectoryPairs
    /\ out = NoOutput

GenDistanceInputs ==
    /\ out = NoOutput
    /\ out' = gen_distance_inputs(
                  flat_add_time_transpose_and_add_zero(data.diffused_targets),
                  flat_add_time_transpose_and_add_zero(data.denoised_diffused_targets))
    /\ UNCHANGED <<trainerVars, forwardVars, data>>

DiscDistanceInputs ==
    /\ out = NoOutput
    /\ out' = disc_distance_inputs(
                  flat_add_time_transpose_and_add_zero(data.diffused_targets),
                  flat_add_time_transpose_and_add_zero(data.denoised_diffused_targets))
    /\ UNCHANGED <<trainerVars, forwardVars, data>>

ValDistanceInputs ==
    /\ out = NoOutput
    /\ out' = val_distance_inputs(
                  flat_add_time_transpose_and_add_zero(data.diffused_targets),
                  flat_add_time_transpose_and_add_zero(data.denoised_diffused_targets))
    /\ UNCHANGED <<trainerVars, forwardVars, data>>

NextWindow == GenDistanceInputs \/ DiscDistanceInputs \/ ValDistanceInputs

SpecWindow == InitWindow /\ [][NextWindow]_vars

(***************************************************************************)
(* Properties of the truncation window                                     *)
(***************************************************************************)
(* the window w holds the zero row and then the states 0, 1, ... of traj,  *)
(* min(9, T+1) rows in all, and no entry of the state T of traj            *)
IsWindowOf(w, traj, T) ==
    LET N == traj.shape[2]
        L == traj.shape[3]
        D == traj.shape[4]
        rows == Min(NUM_STEPS_DIFFUSION_2_CONSIDER, T + 1)
        terminal == { traj.at[<<T, n, l, d>>] :
                        n \in 0..(N - 1), l \in 0..(L - 1), d \in 0..(D - 1) }
    IN  /\ w.shape = <<N, rows, L * D + 1>>
        /\ DOMAIN w.at = Index3(N, rows, L * D + 1)
        /\ \A n \in 0..(N - 1), r \in 0..(rows - 1), l \in 0..(L - 1), d \in 0..(D - 1) :
              /\ w.at[<<n, r, l * D + d>>] =
                    (IF r = 0 THEN 0 ELSE traj.at[<<r - 1, n, l, d>>])
              /\ w.at[<<n, r, l * D + d>>] \notin terminal

(* C12: at the generator phase, the discriminator phase and validation     *)
(* alike, the real and the generated tensor given to the distance are the  *)
(* transformed trajectory without its last step row and then cut to its    *)
(* first 9 step rows: min(9, T+1) rows, the zero row and the least noisy   *)
(* states, never the terminal-noise state T.                               *)
C12_SameTruncationWindowEverywhere ==
    out # NoOutput =>
        /\ out.site \in {"gen", "disc", "val"}
        /\ IsWindowOf(out.real, data.diffused_targets, data.num_diffusion_steps)
        /\ IsWindowOf(out.fake, data.denoised_diffused_targets, data.num_diffusion_steps)

(* a discriminator phase with T = 9: ten step rows after the drop, cut to nine *)
C12_Witness ==
    /\ out # NoOutput
    /\ out.site = "disc"
    /\ data.num_diffusion_steps = 9
    /\ out.real.shape[2] = 9
    /\ out.fake.shape[2] = 9

(***************************************************************************)
(* _compute_score_matching_loss.  The step of the loss is one draw of      *)
(* torch.randint; the call returns the loss computed at that step.         *)
(***************************************************************************)
(* the bug of a closed upper end *)
randint_closed(low, high) == low..high

(* torch.randint(low, high, (1,)): the integers from low to high - 1 *)
randint(low, high) == low..(high - 1)

compute_score_matching_loss(T) ==
    { [time_step_diffusion |-> t] : t \in randint(1, T + 1) }

ScoreCalls ==
    { [targets |-> x, num_diffusion_steps |-> T] :
        x \in Batches, T \in 1..MaxWindowSteps }

InitScore ==
    /\ IdleTrainer
    /\ call_args \in ScoreCalls
    /\ call_result = NotReturned
    /\ data = None
    /\ out = None

(* the call of the generator phase *)
GenScoreMatchingLoss ==
    /\ ~call_result.returned
    /\ \E loss \in compute_score_matching_loss(call_args.num_diffusion_steps) :
          call_result' = [raised |-> None, returned |-> TRUE,
                          value |-> [site |-> "gen",
                                     time_step_diffusion |-> loss.time_step_diffusion]]
    /\ UNCHANGED <<trainerVars, call_args, transformVars>>

(* the call of validation_step *)
ValScoreMatchingLoss ==
    /\ ~call_result.returned
    /\ \E loss \in compute_score_matching_loss(call_args.num_diffusion_steps) :
          call_result' = [raised |-> None, returned |-> TRUE,
                          value |-> [site |-> "val",
                                     time_step_diffusion |-> loss.time_step_diffusion]]
    /\ UNCHANGED <<trainerVars, call_args, transformVars>>

NextScore == GenScoreMatchingLoss \/ ValScoreMatchingLoss

SpecScore == InitScore /\ [][NextScore]_vars

(***************************************************************************)
(* Properties of the score-matching step                                   *)
(***************************************************************************)
(* C13: in every call of _compute_score_matching_loss, from the generator  *)
(* phase or from validation, the step t drawn satisfies 1 <= t <= T, never *)
(* 0, and the steps the call can draw are all of 1..T.                     *)
C13_ScoreStepBetweenOneAndT ==
    LET T == call_args.num_diffusion_steps
    IN  /\ { l.time_step_diffusion : l \in compute_score_matching_loss(T) } = 1..T
        /\ call_result.returned =>
              /\ call_result.value.site \in {"gen", "val"}
              /\ 1 <= call_result.value.time_step_diffusion
              /\ call_result.value.time_step_diffusion <= T

(* a validation call that drew the last step T of a process of 9 steps *)
C13_Witness ==
    /\ call_result.returned
    /\ call_result.value.site = "val"
    /\ call_args.num_diffusion_steps = 9
    /\ call_result.value.time_step_diffusion = 9

(***************************************************************************)
(* Properties of the periodic evaluation                                   *)
(***************************************************************************)
(* C14: a validation call at zero-based epoch e invokes evaluate exactly   *)
(* when e + 1 is a multiple of the period, 100 in DiffPCFGANTrainer and 50 *)
(* in PCFGANTrainer: it starts with evaluate not invoked; at such an epoch *)
(* its next step is the one invocation, after which it plots the           *)
(* trajectories and returns without a second one; at any other epoch it    *)
(* returns without having invoked it.                                      *)
C14_EvaluateExactlyAtMultiplesOfPeriod ==
    [][ LET P == IF config.trainer = DIFF THEN 100 ELSE 50
        IN  /\ pc' = "val" => Count(trace', "evaluate") = 0
            /\ pc = "val" =>
                  IF (current_epoch + 1) % P = 0
                  THEN /\ trace' = Append(trace, "evaluate")
                       /\ pc' \in {"val_evaluated", "val_done", "aborted"}
                  ELSE /\ pc' = "idle"
                       /\ Count(trace, "evaluate") = 0
            /\ pc = "val_evaluated" =>
                  /\ (current_epoch + 1) % P = 0
                  /\ Count(trace, "evaluate") = 1
                  /\ Count(trace', "evaluate") = 1
                  /\ pc' \in {"val_done", "aborted"}
            /\ pc = "val_done" =>
                  /\ (current_epoch + 1) % P = 0
                  /\ Count(trace, "evaluate") = 1
                  /\ pc' = "idle"
      ]_vars

(* the validation call of the 100th epoch of the diffusion trainer, after  *)
(* evaluate and the trajectory plot have returned                          *)
C14_Witness ==
    /\ pc = "val_done"
    /\ config.trainer = DIFF
    /\ current_epoch = 99
    /\ Count(trace, "evaluate") = 1

(***************************************************************************)
(* Properties of the trajectory returned by forward                        *)
(***************************************************************************)
(* C15: a call given the three sizes and no noise tensor samples one noise *)
(* tensor of shape (num_seq, seq_len, dim_seq) and starts backward         *)
(* sampling from it; a call given a noise tensor starts from that tensor   *)
(* and samples none; either way the trajectory returned has the shape      *)
(* (T+1,) + the shape of the start.                                        *)
C15_NoiseSynthesizedOnlyWhenNotGiven ==
    LET T == call_args.num_diffusion_steps
        sizes == <<call_args.num_seq[1], call_args.seq_len[1], call_args.dim_seq[1]>>
        started == call_result.stage \in {"noise_ready", "sampled", "returned"}
    IN  /\ (started /\ ~NoiseGiven) =>
              /\ call_result.noise_sampled = 1
              /\ call_result.start[1].shape = sizes
              /\ DOMAIN call_result.start[1].at = Index3(sizes[1], sizes[2], sizes[3])
        /\ (started /\ NoiseGiven) =>
              /\ call_result.noise_sampled = 0
              /\ call_result.start = call_args.noise_start_seq_z
        /\ call_result.stage \in {"sampled", "returned"} =>
              /\ call_result.backward_sample_calls = 1
              /\ \A ix \in Index3(call_result.start[1].shape[1],
                                  call_result.start[1].shape[2],
                                  call_result.start[1].shape[3]) :
                    call_result.traj_back.at[<<0, ix[1], ix[2], ix[3]>>] =
                        call_result.start[1].at[ix]
        /\ call_result.stage = "returned" =>
              /\ call_result.value.shape = <<T + 1>> \o call_result.start[1].shape
              /\ (~NoiseGiven => call_result.value.shape = <<T + 1>> \o sizes)
              /\ DOMAIN call_result.value.at =
                    Index4(T + 1, call_result.start[1].shape[1],
                           call_result.start[1].shape[2], call_result.start[1].shape[3])

(* forward(num_seq=2, seq_len=1, dim_seq=2) with T = 2 has returned *)
C15_Witness ==
    /\ call_result.stage = "returned"
    /\ call_args.entry = "forward"
    /\ ~NoiseGiven
    /\ call_args.num_seq = <<2>>
    /\ call_args.seq_len = <<1>>
    /\ call_args.dim_seq = <<2>>
    /\ call_args.num_diffusion_steps = 2
    /\ call_result.value.shape = <<3, 2, 1, 2>>

(***************************************************************************)
(* Properties of the explicit optimizer calls                              *)
(***************************************************************************)
ExplicitCalls(seq) == SelectSeq(seq, LAMBDA op : op \in TrainingOps)

(* the k-th explicit call of a training call: the three of the generator   *)
(* phase, then the three of each discriminator phase                       *)
ExpectedCall(k) ==
    IF k <= 3
    THEN <<"optim_gen.zero_grad", "manual_backward", "optim_gen.step">>[k]
    ELSE <<"optim_discr.zero_grad", "manual_backward", "optim_discr.step">>[((k - 4) % 3) + 1]

(* C16: the explicit calls of a training call are, phase after phase, the  *)
(* zero_grad of the phase's optimizer, manual_backward and the step of the *)
(* same optimizer, with no call of another phase in between; and at every  *)
(* optimizer step the gradient buffer of the parameters it updates holds   *)
(* the backward pass of the current phase of the current call and nothing  *)
(* else, also with the fixed-measure flag and with D = 0.                  *)
C16_StepSeesOnlyItsOwnBackward ==
    [][ /\ \A k \in DOMAIN ExplicitCalls(trace') : ExplicitCalls(trace')[k] = ExpectedCall(k)
        /\ trace' = Append(trace, "optim_gen.step") =>
              /\ pc = "gen_backwarded"
              /\ grad[SCORE] = {[call |-> num_calls, phase |-> 0]}
              /\ grad' = grad
        /\ trace' = Append(trace, "optim_discr.step") =>
              /\ pc = "disc_backwarded"
              /\ grad[DISC] = {[call |-> num_calls, phase |-> i + 1]}
              /\ grad' = grad
      ]_vars

(* the second training call of the diffusion trainer after the step of its *)
(* second discriminator phase                                              *)
C16_Witness ==
    /\ pc = "log"
    /\ config.trainer = DIFF
    /\ num_calls = 2
    /\ i = 2
    /\ Len(ExplicitCalls(trace)) = 9
    /\ grad[DISC] = {[call |-> 2, phase |-> 2]}
    /\ grad[SCORE] = {[call |-> 2, phase |-> 0]}

(***************************************************************************)
(* From a batch to the inputs of the reconstruction loss, in the generator *)
(* phase and in validation_step.  Teacher forcing happens at each step     *)
(* with the probability given: forced is the set of steps where it did,    *)
(* any set in the generator phase and none in validation, whose            *)
(* probability is 0.0.                                                     *)
(***************************************************************************)
(* t[-1]: the last state of a trajectory *)
last_state(t) ==
    [shape |-> <<t.shape[2], t.shape[3], t.shape[4]>>,
     at |-> [ix \in Index3(t.shape[2], t.shape[3], t.shape[4]) |->
                t.at[<<t.shape[1] - 1, ix[1], ix[2], ix[3]>>]]]

(* forward(noise_start_seq_z=..., proba_teacher_forcing=..., teacher_forcing_inputs=...) *)
forward_from_noise(noise_start_seq_z, T, seed, forced, teacher_forcing_inputs) ==
    flip_0(backward_sample(noise_start_seq_z, T, seed, forced, teacher_forcing_inputs))

Index2(a, b) == (0..(a - 1)) \X (0..(b - 1))

(* x[:, r, :-1] *)
step_without_time(x, r) ==
    [shape |-> <<x.shape[1], x.shape[3] - 1>>,
     at |-> [ix \in Index2(x.shape[1], x.shape[3] - 1) |-> x.at[<<ix[1], r, ix[2]>>]]]

(* the tensors of a phase; forced is kept to tell what the sampler did *)
phase_tensors(site, x, T, seed, forced, with_forcing) ==
    LET diffused == get_forward_path(x, {}, T, seed).value
        denoised == forward_from_noise(last_state(diffused), T, seed, forced,
                                       IF with_forcing THEN diffused ELSE NoOutput)
        real == flat_add_time_transpose_and_add_zero(diffused)
        fake == flat_add_time_transpose_and_add_zero(denoised)
    IN  [site |-> site, forced |-> forced,
         noise_start_seq_z |-> last_state(diffused),
         diffused |-> diffused, denoised |-> denoised,
         diffused_targets |-> real, denoised_diffused_targets |-> fake,
         reconstruction |-> [real |-> step_without_time(real, 1),
                             fake |-> step_without_time(fake, 1)]]

AlignCalls ==
    { [targets |-> x, num_diffusion_steps |-> T, seed |-> sd] :
        x \in Batches, T \in 1..MaxDiffusionSteps, sd \in 0..MaxSeed }

InitAlign ==
    /\ IdleTrainer
    /\ call_args \in AlignCalls
    /\ call_result = None
    /\ data = None
    /\ out = NoOutput

(* _training_step_gen up to the reconstruction loss *)
GenPhaseTensors ==
    /\ out = NoOutput
    /\ \E forced \in SUBSET (0..(call_args.num_diffusion_steps - 1)) :
          out' = phase_tensors("gen", call_args.targets, call_args.num_diffusion_steps,
                               call_args.seed, forced, TRUE)
    /\ UNCHANGED <<trainerVars, forwardVars, data>>

(* validation_step up to the reconstruction loss *)
ValidationTensors ==
    /\ out = NoOutput
    /\ out' = phase_tensors("val", call_args.targets, call_args.num_diffusion_steps,
                            call_args.seed, {}, FALSE)
    /\ UNCHANGED <<trainerVars, forwardVars, data>>

NextAlign == GenPhaseTensors \/ ValidationTensors

SpecAlign == InitAlign /\ [][NextAlign]_vars

(***************************************************************************)
(* Properties of the alignment of the two trajectories                     *)
(***************************************************************************)
(* C17: the trajectory returned by get_backward_path is the sampler's      *)
(* output reversed: index k is what the sampler produced at position T-k,  *)
(* so index T is the terminal noise it started from (state T of the        *)
(* forward trajectory) and index 0 its last state; after the transform,    *)
(* step row r >= 1 of the real tensor is state r-1 of the forward          *)
(* trajectory and step row r of the generated tensor is the sampler's      *)
(* state of diffusion step r-1; the two inputs of the reconstruction loss  *)
(* are the batch and the sampler's last state, both flattened, without     *)
(* the time channel.                                                       *)
C17_GeneratedAlignedWithForward ==
    out # NoOutput =>
        LET x == call_args.targets
            T == call_args.num_diffusion_steps
            N == x.shape[1]
            L == x.shape[2]
            D == x.shape[3]
            traj_back == backward_sample(out.noise_start_seq_z, T, call_args.seed,
                                         out.forced, out.diffused)
        IN  /\ out.denoised.shape = <<T + 1, N, L, D>>
            /\ out.reconstruction.real.shape = <<N, L * D>>
            /\ out.reconstruction.fake.shape = <<N, L * D>>
            /\ \A n \in 0..(N - 1), l \in 0..(L - 1), d \in 0..(D - 1) :
                  /\ out.noise_start_seq_z.at[<<n, l, d>>] = out.diffused.at[<<T, n, l, d>>]
                  /\ out.denoised.at[<<T, n, l, d>>] = out.noise_start_seq_z.at[<<n, l, d>>]
                  /\ \A k \in 0..T :
                        out.denoised.at[<<k, n, l, d>>] = traj_back.at[<<T - k, n, l, d>>]
                  /\ \A r \in 1..(T + 1) :
                        /\ out.diffused_targets.at[<<n, r, l * D + d>>] =
                              out.diffused.at[<<r - 1, n, l, d>>]
                        /\ out.denoised_diffused_targets.at[<<n, r, l * D + d>>] =
                              traj_back.at[<<T - (r - 1), n, l, d>>]
                  /\ out.reconstruction.real.at[<<n, l * D + d>>] = x.at[<<n, l, d>>]
                  /\ out.reconstruction.fake.at[<<n, l * D + d>>] =
                        traj_back.at[<<T, n, l, d>>]

(* a generator phase with T = 2 on a batch (2, 2, 2), teacher forcing      *)
(* having acted at step 1 only                                             *)
C17_Witness ==
    /\ out # NoOutput
    /\ out.site = "gen"
    /\ call_args.num_diffusion_steps = 2
    /\ call_args.targets.shape = <<2, 2, 2>>
    /\ out.forced = {1}
    /\ out.denoised.at[<<1, 0, 0, 0>>] = out.diffused.at[<<1, 0, 0, 0>>]
    /\ out.denoised.at[<<0, 0, 0, 0>>] # out.diffused.at[<<0, 0, 0, 0>>]

====
